---- MODULE Spec2Model ----
(***************************************************************************)
(* Per-user todo API of ts-template: the route handlers GET/POST           *)
(* (/api/todos) and PATCH/DELETE (/api/todos/[id]) over the todos table.   *)
(* Every handler is an async function: it runs from one await to the next, *)
(* and the handlers of concurrent requests interleave at those awaits.     *)
(***************************************************************************)
EXTENDS Integers, Sequences, FiniteSets, TLC

\* the server: the todos table and the route handlers
VARIABLES todos, clock, uuids, started, req, res

\* the client: the calls of the useTodos functions and the SWR cache
VARIABLES calls, cache, fetching, revision, invoked, settled

\* the TodoList component: its React state, the list it renders, and its
\* event handlers that await a call (openedBy records how the dialog was last
\* opened)
VARIABLES isOpen, editingTodo, title, description, known, handlers, handled,
          openedBy, console, listing, isError

\* the auth configuration built at startup from the environment
VARIABLES env, auth

server == <<todos, clock, uuids, started, req, res>>

client == <<calls, cache, fetching, revision, invoked, settled>>

ui == <<isOpen, editingTodo, title, description, known, handlers, handled,
        openedBy, console, listing, isError>>

startup == <<env, auth>>

vars == <<server, client, ui, startup>>

(***************************************************************************)
(* Bounds of the model.                                                    *)
(***************************************************************************)
MaxRequests == 2

Slots == {1, 2}

Users == {"u1", "u2"}

MaxCalls == 3

MaxHandled == 2

MaxClock == 1

Calls == {1, 2}


(***************************************************************************)
(* JavaScript values.  An optional value is a sequence of length 0 or 1:   *)
(* a property that is absent from the body (undefined) is <<>>, a present  *)
(* one is <<v>>; the JSON value null is <<>> and a JSON string or boolean  *)
(* x is <<x>>.  A body field is hence <<>> (absent), <<<<>>>> (null) or    *)
(* <<<<x>>>>.  A nullable column holds <<>> (NULL) or <<x>>.               *)
(***************************************************************************)
Undefined == <<>>

Null == <<>>

Val(x) == <<x>>

Prop(v) == <<v>>

\* truthiness of a body field that holds text: !title, description || null
Truthy(p) == p # Undefined /\ p[1] # Null /\ p[1][1] # ""

\* p ?? d falls back to d exactly when p is undefined or null
Nullish(p) == p = Undefined \/ p[1] = Null

(***************************************************************************)
(* Request inputs.  getSession resolves to no session (<<>>) or to the     *)
(* session of a user (<<uid>>).  A body is a JSON object; the fields the   *)
(* handlers destructure are title, description and completed, and a client *)
(* may send any other field, such as userId.                               *)
(***************************************************************************)
NoSession == <<>>

Sessions == {NoSession} \cup {<<u>> : u \in Users}

Methods == {"GET", "POST", "PATCH", "DELETE"}

BodyTitles == {Undefined, Prop(Val("")), Prop(Val("a"))}

BodyDescriptions == {Undefined, Prop(Null), Prop(Val("")), Prop(Val("d"))}

BodyCompleted == {Undefined, Prop(Val(TRUE)), Prop(Val(FALSE))}

BodyUserIds == {Undefined} \cup {Prop(Val(u)) : u \in Users}

Bodies ==
  [title : BodyTitles, description : BodyDescriptions,
   completed : BodyCompleted, userId : BodyUserIds]

\* new Date(): the clock never goes backwards; between two reads it has
\* either not advanced or advanced
Now == {clock, clock + 1}

(***************************************************************************)
(* The slot of a request in flight: the handler's position (pc) and its    *)
(* local variables (session, id, existingTodo[0], the values of the        *)
(* pending statement).                                                     *)
(***************************************************************************)
Idle ==
  [pc |-> "idle", method |-> "", session |-> NoSession, id |-> 0,
   existing |-> <<>>, patch |-> <<>>, values |-> <<>>]

Begin(method, session, id) ==
  [Idle EXCEPT !.method = method, !.session = session, !.id = id]

(***************************************************************************)
(* The response a handler returns: res holds the response of the step just *)
(* taken (to the request r), and <<>> after a step that returns none.      *)
(* logged is the exception the catch block logs.                           *)
(***************************************************************************)
Response(r, status, error, message, data, logged) ==
  <<[method |-> r.method, session |-> r.session, id |-> r.id,
     status |-> status, error |-> error, message |-> message, data |-> data,
     logged |-> logged]>>

\* NextResponse.json({ error }, { status })
ErrorResponse(r, status, error) == Response(r, status, error, "", <<>>, "")

\* NextResponse.json(data, { status })
DataResponse(r, status, data) == Response(r, status, "", "", data, "")

\* the message of each handler's catch block
CatchError(method) ==
  CASE method = "GET" -> "Failed to fetch todos"
    [] method = "POST" -> "Failed to create todo"
    [] method = "PATCH" -> "Failed to update todo"
    [] method = "DELETE" -> "Failed to delete todo"

\* as Caught, for a handler without its catch block: no response is returned
CaughtEscapes(r, what) == <<>>

\* catch (error) { console.error(..., error); return 500 }
Caught(r, what) == Response(r, 500, CatchError(r.method), "", <<>>, what)

Unauthorized(r) == ErrorResponse(r, 401, "Unauthorized")

NotFound(r) == ErrorResponse(r, 404, "Todo not found")

(***************************************************************************)
(* The statements on the todos table.                                      *)
(***************************************************************************)
\* as WhereIdAndUser, without the userId filter
WhereIdOnly(row, id, userId) == row.id = id

\* and(eq(todos.id, id), eq(todos.userId, session.user.id))
WhereIdAndUser(row, id, userId) == row.id = id /\ row.userId = userId

\* as WhereUser, without the filter
WhereAnyUser(row, userId) == TRUE

\* eq(todos.userId, session.user.id)
WhereUser(row, userId) == row.userId = userId

\* .limit(1)
Limit1(rows) == IF rows = {} THEN <<>> ELSE <<CHOOSE r \in rows : TRUE>>

\* db.select().from(todos).where(and(...)).limit(1)
SelectExisting(table, id, userId) ==
  Limit1({r \in table : WhereIdAndUser(r, id, userId)})

\* db.insert(todos).values(row)
Insert(table, row) == table \cup {row}

\* as OrderByCreatedAt, in any order
Unordered(rows) ==
  {q \in [1..Cardinality(rows) -> rows] : \A r \in rows : \E i \in DOMAIN q : q[i] = r}

\* .orderBy(todos.createdAt): the rows in ascending createdAt; the order of
\* rows with equal createdAt is left to the store
OrderByCreatedAt(rows) ==
  {q \in [1..Cardinality(rows) -> rows] :
     /\ \A r \in rows : \E i \in DOMAIN q : q[i] = r
     /\ \A i, j \in DOMAIN q : i < j => q[i].createdAt <= q[j].createdAt}

\* db.select().from(todos).where(eq(todos.userId, ...)).orderBy(todos.createdAt)
SelectUserTodos(table, userId) ==
  OrderByCreatedAt({r \in table : WhereUser(r, userId)})

\* as InsertValues, with the userId the body carries when it carries one
InsertValuesBodyUserId(body, session, id, createdAt, updatedAt) ==
  [id |-> id,
   title |-> body.title[1][1],
   description |-> IF Truthy(body.description) THEN body.description[1] ELSE Null,
   completed |-> FALSE,
   userId |-> IF Nullish(body.userId) THEN session[1] ELSE body.userId[1][1],
   createdAt |-> createdAt,
   updatedAt |-> updatedAt]

\* as InsertValues, with the two timestamps exchanged
InsertValuesSwapped(body, session, id, createdAt, updatedAt) ==
  [id |-> id,
   title |-> body.title[1][1],
   description |-> IF Truthy(body.description) THEN body.description[1] ELSE Null,
   completed |-> FALSE,
   userId |-> session[1],
   createdAt |-> updatedAt,
   updatedAt |-> createdAt]

\* .values({...}) of POST
InsertValues(body, session, id, createdAt, updatedAt) ==
  [id |-> id,
   title |-> body.title[1][1],
   description |-> IF Truthy(body.description) THEN body.description[1] ELSE Null,
   completed |-> FALSE,
   userId |-> session[1],
   createdAt |-> createdAt,
   updatedAt |-> updatedAt]

\* const { title, description, completed } = body
Destructure(body) ==
  [title |-> body.title, description |-> body.description,
   completed |-> body.completed]

\* .set({...}) of PATCH
UpdateSet(body, existing, now) ==
  [title |-> IF Nullish(body.title) THEN existing.title ELSE body.title[1][1],
   description |-> IF body.description # Undefined
                   THEN body.description[1] ELSE existing.description,
   completed |-> IF Nullish(body.completed)
                 THEN existing.completed ELSE body.completed[1][1],
   updatedAt |-> now]

\* as SetRow, with createdAt set as well
SetRowCreatedAt(row, set) ==
  [row EXCEPT !.title = set.title, !.description = set.description,
              !.completed = set.completed, !.updatedAt = set.updatedAt,
              !.createdAt = set.updatedAt]

\* one row after db.update(todos).set(set)
SetRow(row, set) ==
  [row EXCEPT !.title = set.title, !.description = set.description,
              !.completed = set.completed, !.updatedAt = set.updatedAt]

\* as Update, writing only a set that is not older than the row
UpdateIfNewer(table, set, id, userId) ==
  {IF WhereIdAndUser(r, id, userId) /\ set.updatedAt >= r.updatedAt
   THEN SetRow(r, set) ELSE r : r \in table}

\* db.update(todos).set(set).where(and(...))
Update(table, set, id, userId) ==
  {IF WhereIdAndUser(r, id, userId) THEN SetRow(r, set) ELSE r : r \in table}

\* .returning() of the update: the rows it has written
UpdateReturning(table, set, id, userId) ==
  Limit1({SetRow(r, set) : r \in {x \in table : WhereIdAndUser(x, id, userId)}})

\* as Delete, leaving the rows in the table
DeleteNone(table, id, userId) == table

\* db.delete(todos).where(and(...))
Delete(table, id, userId) ==
  {r \in table : ~WhereIdAndUser(r, id, userId)}

(***************************************************************************)
(* The initial states: no request in flight, and the table as earlier      *)
(* requests have left it: empty (the state after construction), or holding *)
(* the row that POST {title: "a"} of u1 created at time 1, or also the row *)
(* that POST {title: "a", description: "d"} of u2 created at time 2.       *)
(***************************************************************************)
Row1 == InsertValues([title |-> Prop(Val("a")), description |-> Undefined,
                      completed |-> Undefined, userId |-> Undefined],
                     <<"u1">>, 1, 1, 1)

Row2 == InsertValues([title |-> Prop(Val("a")), description |-> Prop(Val("d")),
                      completed |-> Undefined, userId |-> Undefined],
                     <<"u2">>, 2, 2, 2)

Tables == {{}, Insert({}, Row1), Insert(Insert({}, Row1), Row2)}

\* the ids a request may name: 1 and 2 are those of Row1 and Row2, and no
\* initial table has a row with id 3
Ids == {1, 2, 3}

(***************************************************************************)
(* The client state (hooks/useTodos.ts).  A call of createTodo, updateTodo *)
(* or deleteTodo awaits fetch and then res.json(); mutated tells that the  *)
(* call has called mutate('/api/todos').  cache is the SWR cache entry of  *)
(* the key '/api/todos': data is the revision of the list it holds (-1:    *)
(* undefined), the revision being the number of mutations the server has   *)
(* applied.  fetching is the revalidation of the key in flight.            *)
(***************************************************************************)
NoCall == [pc |-> "idle", op |-> "", mutated |-> FALSE]

Ops == {"createTodo", "updateTodo", "deleteTodo"}

NoFetch == [pc |-> "none", data |-> -1]

(***************************************************************************)
(* The auth configuration (lib/auth.ts).  A variable of the environment is *)
(* undefined (<<>>) or a string (<<x>>); where it is set it holds, here,   *)
(* its own name as its value.                                              *)
(***************************************************************************)
EnvNames ==
  {"GOOGLE_CLIENT_ID", "GOOGLE_CLIENT_SECRET",
   "GITHUB_CLIENT_ID", "GITHUB_CLIENT_SECRET"}

EnvValues(n) == {Undefined, Val(""), Val(n)}

Envs == {e \in [EnvNames -> UNION {EnvValues(n) : n \in EnvNames}] :
           \A n \in EnvNames : e[n] \in EnvValues(n)}

\* process.env.X as a condition: neither undefined nor the empty string
EnvSet(v) == v # Undefined /\ v[1] # ""

\* one entry of providers
Provider(name, e, id, secret) ==
  [name |-> name, clientId |-> e[id][1], clientSecret |-> e[secret][1]]

\* as socialProviders, with google added as soon as its client id is set
socialProvidersIdOnly(e) ==
  (IF EnvSet(e["GOOGLE_CLIENT_ID"])
   THEN {[name |-> "google", clientId |-> e["GOOGLE_CLIENT_ID"][1],
          clientSecret |-> e["GOOGLE_CLIENT_SECRET"]]}
   ELSE {})
  \cup
  (IF EnvSet(e["GITHUB_CLIENT_ID"]) /\ EnvSet(e["GITHUB_CLIENT_SECRET"])
   THEN {Provider("github", e, "GITHUB_CLIENT_ID", "GITHUB_CLIENT_SECRET")}
   ELSE {})

\* socialProviders: (() => { ... return providers; })()
socialProviders(e) ==
  (IF EnvSet(e["GOOGLE_CLIENT_ID"]) /\ EnvSet(e["GOOGLE_CLIENT_SECRET"])
   THEN {Provider("google", e, "GOOGLE_CLIENT_ID", "GOOGLE_CLIENT_SECRET")}
   ELSE {})
  \cup
  (IF EnvSet(e["GITHUB_CLIENT_ID"]) /\ EnvSet(e["GITHUB_CLIENT_SECRET"])
   THEN {Provider("github", e, "GITHUB_CLIENT_ID", "GITHUB_CLIENT_SECRET")}
   ELSE {})

\* betterAuth({ ..., emailAndPassword, socialProviders })
betterAuth(e) ==
  [emailAndPassword |-> [enabled |-> TRUE], socialProviders |-> socialProviders(e)]

\* the environment without OAuth credentials
NoEnv == [n \in EnvNames |-> Undefined]

\* the server is up: lib/auth.ts has been evaluated
Running == env = NoEnv /\ auth = <<betterAuth(NoEnv)>>

(***************************************************************************)
(* The TodoList component (components/TodoList.tsx).  editingTodo is <<>>  *)
(* (null) or <<todo>>; known is the list useTodos() gives it (<<>> while   *)
(* there is none); a handler that awaits a call holds the request of the   *)
(* call and, once the call has settled, how.                               *)
(***************************************************************************)
NoHandler ==
  [pc |-> "idle", handler |-> "", method |-> "", id |-> 0, body |-> <<>>,
   todo |-> <<>>]

\* the useState initial values
Rendered ==
  /\ console = ""
  /\ listing = <<>>
  /\ isError = FALSE
  /\ isOpen = FALSE
  /\ editingTodo = Null
  /\ title = ""
  /\ description = ""
  /\ known = <<>>
  /\ handlers = [c \in Calls |-> NoHandler]
  /\ handled = 0
  /\ openedBy = ""

\* useSWR('/api/todos', fetcher) of the mounted TodoList: nothing cached yet
\* and the first fetch on its way
Mounted ==
  /\ calls = [c \in Calls |-> NoCall]
  /\ cache = [data |-> -1, error |-> FALSE]
  /\ fetching = [pc |-> "sent", data |-> -1]
  /\ revision = 0
  /\ invoked = 0
  /\ settled = <<>>
  /\ Rendered
  /\ Running

Init ==
  /\ todos \in Tables
  /\ clock = Cardinality(todos)
  /\ uuids = Cardinality(todos)
  /\ started = 0
  /\ req = [s \in Slots |-> Idle]
  /\ res = <<>>
  /\ Mounted

\* a request arrives at the first free slot
Arrives(s) ==
  /\ req[s].pc = "idle"
  /\ \A t \in Slots : t < s => req[t].pc # "idle"
  /\ started < MaxRequests

\* the handler of slot s goes on as r, returning nothing yet
Goes(s, r) == req' = [req EXCEPT ![s] = r] /\ res' = <<>>

\* the handler of slot s returns response
Returns(s, response) == req' = [req EXCEPT ![s] = Idle] /\ res' = response

(***************************************************************************)
(* The handlers.  A handler interleaves with the other requests at its     *)
(* awaits.  What a handler does before its first store statement reads no  *)
(* shared state but the clock, so the request's arrival, getSession and    *)
(* request.json() are one step with the first statement that follows them. *)
(***************************************************************************)
\* GET /api/todos: the select statement executes and the handler responds
GET(s, session) ==
  /\ Arrives(s)
  /\ started' = started + 1
  /\ IF session = NoSession
     THEN Returns(s, Unauthorized(Begin("GET", session, 0)))
     ELSE \E userTodos \in SelectUserTodos(todos, session[1]) :
            Returns(s, DataResponse(Begin("GET", session, 0), 200, userTodos))
  /\ UNCHANGED <<todos, clock, uuids, client, ui, startup>>

\* as POSTCheck, with the title validated before the session
POSTCheckTitleFirst(session, body) ==
  IF ~Truthy(body.title) THEN 400
  ELSE IF session = NoSession THEN 401
  ELSE 0

\* as POSTCheck, rejecting only a body without a title
POSTCheckAbsentOnly(session, body) ==
  IF session = NoSession THEN 401
  ELSE IF body.title = Undefined THEN 400
  ELSE 0

\* POST: if (!session) 401; if (!title) 400; 0 when the handler goes on
POSTCheck(session, body) ==
  IF session = NoSession THEN 401
  ELSE IF ~Truthy(body.title) THEN 400
  ELSE 0

\* POST /api/todos up to its insert statement: session, body, validation and
\* the values of the new row
POST(s, session, body) ==
  /\ Arrives(s)
  /\ started' = started + 1
  /\ CASE POSTCheck(session, body) = 401 ->
            /\ Returns(s, Unauthorized(Begin("POST", session, 0)))
            /\ UNCHANGED <<clock, uuids>>
       [] POSTCheck(session, body) = 400 ->
            /\ Returns(s, ErrorResponse(Begin("POST", session, 0), 400,
                                        "Title is required"))
            /\ UNCHANGED <<clock, uuids>>
       [] OTHER ->
            \E createdAt \in Now :
              \E updatedAt \in {createdAt, createdAt + 1} :
                /\ uuids' = uuids + 1
                /\ clock' = updatedAt
                /\ Goes(s, [Begin("POST", session, 0) EXCEPT
                              !.pc = "insert",
                              !.values = <<InsertValues(body, session, uuids + 1,
                                                        createdAt, updatedAt)>>])
  /\ UNCHANGED <<todos, client, ui, startup>>

\* the insert statement executes and the handler responds with the new row
POST_insert(s) ==
  /\ req[s].pc = "insert"
  /\ todos' = Insert(todos, req[s].values[1])
  /\ Returns(s, DataResponse(req[s], 201, <<req[s].values[1]>>))
  /\ UNCHANGED <<clock, uuids, started, client, ui, startup>>

\* PATCH /api/todos/[id]: the select statement executes
PATCH(s, session, id) ==
  /\ Arrives(s)
  /\ started' = started + 1
  /\ IF session = NoSession
     THEN Returns(s, Unauthorized(Begin("PATCH", session, id)))
     ELSE Goes(s, [Begin("PATCH", session, id) EXCEPT
                     !.pc = "selected",
                     !.existing = SelectExisting(todos, id, session[1])])
  /\ UNCHANGED <<todos, clock, uuids, client, ui, startup>>

\* the handler from the select's result to its update statement; the fields
\* of the body are first used here
PATCH_set(s, body) ==
  /\ req[s].pc = "selected"
  /\ IF Len(req[s].existing) = 0
     THEN /\ Returns(s, NotFound(req[s]))
          /\ UNCHANGED clock
     ELSE \E now \in Now :
            /\ clock' = now
            /\ Goes(s, [req[s] EXCEPT
                          !.pc = "update",
                          !.existing = <<>>,
                          !.patch = <<Destructure(body)>>,
                          !.values = <<UpdateSet(body, req[s].existing[1], now)>>])
  /\ UNCHANGED <<todos, uuids, started, client, ui, startup>>

\* the update statement executes and the handler responds with
\* updatedTodo[0]; NextResponse.json(undefined) throws a TypeError
PATCH_update(s) ==
  /\ req[s].pc = "update"
  /\ todos' = Update(todos, req[s].values[1], req[s].id, req[s].session[1])
  /\ LET updatedTodo ==
           UpdateReturning(todos, req[s].values[1], req[s].id, req[s].session[1])
     IN IF Len(updatedTodo) = 0
        THEN Returns(s, Caught(req[s], "json"))
        ELSE Returns(s, DataResponse(req[s], 200, updatedTodo))
  /\ UNCHANGED <<clock, uuids, started, client, ui, startup>>

\* DELETE /api/todos/[id]: the select statement executes
DELETE(s, session, id) ==
  /\ Arrives(s)
  /\ started' = started + 1
  /\ IF session = NoSession
     THEN Returns(s, Unauthorized(Begin("DELETE", session, id)))
     ELSE IF Len(SelectExisting(todos, id, session[1])) = 0
     THEN Returns(s, NotFound(Begin("DELETE", session, id)))
     ELSE Goes(s, [Begin("DELETE", session, id) EXCEPT !.pc = "delete"])
  /\ UNCHANGED <<todos, clock, uuids, client, ui, startup>>

\* the delete statement executes and the handler responds
DELETE_delete(s) ==
  /\ req[s].pc = "delete"
  /\ todos' = Delete(todos, req[s].id, req[s].session[1])
  /\ Returns(s, Response(req[s], 200, "", "Todo deleted successfully", <<>>, ""))
  /\ UNCHANGED <<clock, uuids, started, client, ui, startup>>

\* as Catch, for an insert that rejects after it has written its row
CatchWritten(s) ==
  /\ req[s].pc \in {"insert", "update", "delete"}
  /\ todos' = IF req[s].pc = "insert"
              THEN Insert(todos, req[s].values[1]) ELSE todos
  /\ Returns(s, Caught(req[s], "db"))
  /\ UNCHANGED <<clock, uuids, started, client, ui, startup>>

\* a pending insert, update or delete statement rejects: it has no effect,
\* and the catch block answers 500
Catch(s) ==
  /\ req[s].pc \in {"insert", "update", "delete"}
  /\ Returns(s, Caught(req[s], "db"))
  /\ UNCHANGED <<todos, clock, uuids, started, client, ui, startup>>

\* as Rejected, with a body that cannot be read answered as an invalid one
RejectedAsInvalid(s, method, session, id, what) ==
  /\ Arrives(s)
  /\ started' = started + 1
  /\ id # 0 <=> method \in {"PATCH", "DELETE"}
  /\ CASE what = "getSession" -> session = NoSession
       [] what = "json" -> session # NoSession /\ method \in {"POST", "PATCH"}
       [] what = "db" -> session # NoSession /\ method \in {"GET", "PATCH", "DELETE"}
  /\ IF what = "json"
     THEN Returns(s, Response(Begin(method, session, id), 400,
                              "Title is required", "", <<>>, what))
     ELSE Returns(s, Caught(Begin(method, session, id), what))
  /\ UNCHANGED <<todos, clock, uuids, client, ui, startup>>

\* getSession, request.json() (or the destructuring of a null body) or the
\* handler's first select rejects: the catch block answers 500
Rejected(s, method, session, id, what) ==
  /\ Arrives(s)
  /\ started' = started + 1
  /\ id # 0 <=> method \in {"PATCH", "DELETE"}
  /\ CASE what = "getSession" -> session = NoSession
       [] what = "json" -> session # NoSession /\ method \in {"POST", "PATCH"}
       [] what = "db" -> session # NoSession /\ method \in {"GET", "PATCH", "DELETE"}
  /\ Returns(s, Caught(Begin(method, session, id), what))
  /\ UNCHANGED <<todos, clock, uuids, client, ui, startup>>

Next ==
  \E s \in Slots :
    \/ \E method \in Methods, session \in Sessions, id \in {0} \cup Ids,
          what \in {"getSession", "json", "db"} :
         Rejected(s, method, session, id, what)
    \/ \E session \in Sessions : GET(s, session)
    \/ \E session \in Sessions, body \in Bodies : POST(s, session, body)
    \/ POST_insert(s)
    \/ \E session \in Sessions, id \in Ids : PATCH(s, session, id)
    \/ \E body \in Bodies : PATCH_set(s, body)
    \/ PATCH_update(s)
    \/ \E session \in Sessions, id \in Ids : DELETE(s, session, id)
    \/ DELETE_delete(s)
    \/ Catch(s)

Spec == Init /\ [][Next]_vars

(***************************************************************************)
(* Every statement a handler awaits settles: it resolves, or it rejects.   *)
(***************************************************************************)
\* the handler of slot s goes on from its await
Continues(s) ==
  \/ POST_insert(s)
  \/ \E body \in Bodies : PATCH_set(s, body)
  \/ PATCH_update(s)
  \/ DELETE_delete(s)
  \/ Catch(s)

SpecFair == Spec /\ \A s \in Slots : WF_vars(Continues(s))

(***************************************************************************)
(* The runs that begin when a POST has just been answered 201: the table   *)
(* of an initial state with the row the POST has inserted, and the POST's  *)
(* response.                                                               *)
(***************************************************************************)
\* the states in which POST {title: "a"} of a session that has no row in the
\* table, arrived alone, has returned; the table holds a row of another user
Created ==
  UNION {UNION {UNION {
    {[table |-> table, session |-> session,
      row |-> InsertValues(body, session, Cardinality(table) + 1,
                           createdAt, updatedAt)] :
       body \in {b \in Bodies : /\ POSTCheck(session, b) = 0
                                /\ b.description = Undefined
                                /\ b.completed = Undefined
                                /\ b.userId = Undefined},
       updatedAt \in {createdAt, createdAt + 1}} :
    createdAt \in {Cardinality(table), Cardinality(table) + 1}} :
    session \in {x \in Sessions \ {NoSession} :
                   \A r \in table : ~WhereUser(r, x[1])}} :
    table \in Tables \ {{}}}

\* the response of that POST
CreatedResponse(c) == DataResponse(Begin("POST", c.session, 0), 201, <<c.row>>)

InitCreated ==
  /\ \E c \in Created :
       /\ todos = Insert(c.table, c.row)
       /\ clock = c.row.updatedAt
       /\ uuids = c.row.id
       /\ res = CreatedResponse(c)
  /\ started = 0
  /\ req = [s \in Slots |-> Idle]
  /\ Mounted

SpecCreated == InitCreated /\ [][Next]_vars

(***************************************************************************)
(* The client: the functions of hooks/useTodos.ts and the revalidation of  *)
(* the key '/api/todos'.  The server is seen through its responses: a      *)
(* mutation that it answers 2xx it has applied (revision + 1) when it      *)
(* sends the response, one that it answers with an error it has not; the   *)
(* request of a call may be lost, and so may the response.                 *)
(***************************************************************************)
\* mutate('/api/todos'): the requests in flight for the key are dropped and
\* a new revalidation starts
mutate(f) == [pc |-> "sent", data |-> -1]

\* the call of slot c goes on as r
CallGoes(c, r) == calls' = [calls EXCEPT ![c] = r] /\ settled' = <<>>

\* the call of slot c settles: its promise resolves, or it rejects
CallSettles(c, outcome) ==
  /\ calls' = [calls EXCEPT ![c] = NoCall]
  /\ settled' = <<[op |-> calls[c].op, outcome |-> outcome]>>

\* createTodo(...), updateTodo(...) or deleteTodo(...) is called: it sends
\* its request and awaits fetch
Invoke(c, op) ==
  /\ calls[c].pc = "idle"
  /\ \A d \in Calls : d < c => calls[d].pc # "idle"
  /\ invoked < MaxCalls
  /\ invoked' = invoked + 1
  /\ CallGoes(c, [NoCall EXCEPT !.pc = "fetch", !.op = op])
  /\ UNCHANGED <<cache, fetching, revision, server, ui, startup>>

\* the route handler answers the request of the call: with 2xx when it has
\* applied the mutation, with an error status when it has not; res is on
\* its way
ServerAnswers(c, ok) ==
  /\ calls[c].pc = "fetch"
  /\ revision' = IF ok THEN revision + 1 ELSE revision
  /\ CallGoes(c, [calls[c] EXCEPT !.pc = IF ok THEN "ok" ELSE "error"])
  /\ UNCHANGED <<cache, fetching, invoked, server, ui, startup>>

\* fetch rejects (the request or the response is lost): the call rejects
FetchRejects(c) ==
  /\ calls[c].pc \in {"fetch", "ok", "error"}
  /\ CallSettles(c, "rejected")
  /\ UNCHANGED <<cache, fetching, revision, invoked, server, ui, startup>>

\* fetch resolves with res: if (!res.ok) throw; deleteTodo calls mutate and
\* then awaits res.json(), createTodo and updateTodo await res.json() first
FetchResolves(c) ==
  /\ calls[c].pc \in {"ok", "error"}
  /\ IF calls[c].pc = "error"
     THEN /\ CallSettles(c, "rejected")
          /\ UNCHANGED fetching
     ELSE IF calls[c].op = "deleteTodo"
     THEN /\ fetching' = mutate(fetching)
          /\ CallGoes(c, [calls[c] EXCEPT !.pc = "json", !.mutated = TRUE])
     ELSE /\ fetching' = fetching
          /\ CallGoes(c, [calls[c] EXCEPT !.pc = "json"])
  /\ UNCHANGED <<cache, revision, invoked, server, ui, startup>>

\* res.json() resolves: createTodo and updateTodo call mutate, and the call
\* returns the parsed body
JsonResolves(c) ==
  /\ calls[c].pc = "json"
  /\ fetching' = IF calls[c].mutated THEN fetching ELSE mutate(fetching)
  /\ CallSettles(c, "resolved")
  /\ UNCHANGED <<cache, revision, invoked, server, ui, startup>>

\* res.json() rejects (the body cannot be read): the call rejects
JsonRejects(c) ==
  /\ calls[c].pc = "json"
  /\ CallSettles(c, "rejected")
  /\ UNCHANGED <<cache, fetching, revision, invoked, server, ui, startup>>

\* the GET of the fetcher is answered: with the list as it is now, or with
\* an error (or not at all)
FetcherResponds(ok) ==
  /\ fetching.pc = "sent"
  /\ fetching' = IF ok THEN [pc |-> "ok", data |-> revision]
                 ELSE [pc |-> "failed", data |-> -1]
  /\ settled' = <<>>
  /\ UNCHANGED <<calls, cache, revision, invoked, server, ui, startup>>

\* the fetcher settles: SWR stores the list, or the error beside the list
\* it has
FetcherSettles ==
  /\ fetching.pc \in {"ok", "failed"}
  /\ cache' = IF fetching.pc = "ok"
              THEN [data |-> fetching.data, error |-> FALSE]
              ELSE [cache EXCEPT !.error = TRUE]
  /\ fetching' = NoFetch
  /\ settled' = <<>>
  /\ UNCHANGED <<calls, revision, invoked, server, ui, startup>>

InitClient ==
  /\ todos = {}
  /\ clock = 0
  /\ uuids = 0
  /\ started = 0
  /\ req = [s \in Slots |-> Idle]
  /\ res = <<>>
  /\ Mounted

NextClient ==
  \/ \E c \in Calls, op \in Ops : Invoke(c, op)
  \/ \E c \in Calls, ok \in BOOLEAN : ServerAnswers(c, ok)
  \/ \E c \in Calls : FetchRejects(c)
  \/ \E c \in Calls : FetchResolves(c)
  \/ \E c \in Calls : JsonResolves(c)
  \/ \E c \in Calls : JsonRejects(c)
  \/ \E ok \in BOOLEAN : FetcherResponds(ok)
  \/ FetcherSettles

\* every promise the client awaits settles
ClientContinues ==
  \/ \E c \in Calls, ok \in BOOLEAN : ServerAnswers(c, ok)
  \/ \E c \in Calls : FetchRejects(c)
  \/ \E c \in Calls : FetchResolves(c)
  \/ \E c \in Calls : JsonResolves(c)
  \/ \E c \in Calls : JsonRejects(c)
  \/ \E ok \in BOOLEAN : FetcherResponds(ok)
  \/ FetcherSettles

SpecClient == InitClient /\ [][NextClient]_vars /\ WF_vars(ClientContinues)

(***************************************************************************)
(* Startup: lib/auth.ts is evaluated once, when it is first imported; the  *)
(* environment may change afterwards.                                      *)
(***************************************************************************)
\* export const auth = betterAuth({...})
LoadAuth ==
  /\ auth = <<>>
  /\ auth' = <<betterAuth(env)>>
  /\ UNCHANGED <<env, server, client, ui>>

\* a variable of the environment changes while the server runs
SetEnv(n, v) ==
  /\ auth # <<>>
  /\ env[n] # v
  /\ env' = [env EXCEPT ![n] = v]
  /\ UNCHANGED <<auth, server, client, ui>>

InitStartup ==
  /\ todos = {}
  /\ clock = 0
  /\ uuids = 0
  /\ started = 0
  /\ req = [s \in Slots |-> Idle]
  /\ res = <<>>
  /\ calls = [c \in Calls |-> NoCall]
  /\ cache = [data |-> -1, error |-> FALSE]
  /\ fetching = NoFetch
  /\ revision = 0
  /\ invoked = 0
  /\ settled = <<>>
  /\ Rendered
  /\ env \in Envs
  /\ auth = <<>>

NextStartup ==
  \/ LoadAuth
  \/ \E n \in EnvNames : \E v \in EnvValues(n) : SetEnv(n, v)

SpecStartup == InitStartup /\ [][NextStartup]_vars

(***************************************************************************)
(* The TodoList component, for the signed-in user u1.  A call of the hooks *)
(* is seen from its handler: the request it sends, the route handler       *)
(* running it statement by statement (req[c] is the request of the call of *)
(* slot c), the response on its way, and the call resolving (res.ok) or    *)
(* rejecting.  The list the component renders is the one the fetcher of    *)
(* SWR resolved with last; beside an error of the fetcher the component    *)
(* renders the error paragraph only.                                       *)
(***************************************************************************)
Me == <<"u1">>

\* what the user types into the title input and the description textarea
FormTitles == {"b"}

FormDescriptions == {"d"}

\* JSON.stringify({ title, description }) of createTodo
createTodoBody(t, d) ==
  [title |-> Prop(Val(t)), description |-> Prop(Val(d)),
   completed |-> Undefined, userId |-> Undefined]

\* JSON.stringify(updates) of updateTodo: the properties updates has
updateTodoBody(updates) ==
  [title |-> updates.title, description |-> updates.description,
   completed |-> updates.completed, userId |-> Undefined]

\* { title, description } of handleSubmit
SubmitUpdates(t, d) ==
  [title |-> Prop(Val(t)), description |-> Prop(Val(d)), completed |-> Undefined]

\* as ToggleUpdates, with the title of the todo sent along
ToggleUpdatesWithTitle(todo) ==
  [title |-> Prop(Val(todo.title)), description |-> Undefined,
   completed |-> Prop(Val(~todo.completed))]

\* { completed: !todo.completed } of handleToggle
ToggleUpdates(todo) ==
  [title |-> Undefined, description |-> Undefined,
   completed |-> Prop(Val(~todo.completed))]

\* todo.description || ""
DescriptionField(todo) ==
  IF todo.description = Null \/ todo.description[1] = ""
  THEN "" ELSE todo.description[1]

\* new Date() while the component is watched: the clock as far as MaxClock
Today == {now \in Now : now <= MaxClock}

\* the todos the component renders: if (isError) return the error paragraph
Rendering == IF isError THEN {} ELSE {known[i] : i \in DOMAIN known}

\* the page can be clicked: it is rendered, and the Dialog, which is modal
\* (a fixed overlay that covers the page), is not open
Clickable == ~isError /\ ~isOpen

\* the form state of the component
form == <<isOpen, editingTodo, title, description>>

\* the revalidation: the list on its way to the fetcher, and SWR's error
fetch == <<listing, isError>>

\* an event handler calls a hook function and awaits it
Awaits(c, h) ==
  /\ handlers[c].pc = "idle"
  /\ req[c].pc = "idle"
  /\ \A d \in Calls : d < c => (handlers[d].pc # "idle" \/ req[d].pc # "idle")
  /\ handled < MaxHandled
  /\ handled' = handled + 1
  /\ handlers' = [handlers EXCEPT ![c] = h]

\* as openCreateModal, only opening the dialog
openCreateModalKeepsForm ==
  /\ Clickable
  /\ isOpen' = TRUE
  /\ openedBy' = IF ~isOpen /\ editingTodo # Null
                 THEN "openCreateModal after onClose" ELSE "openCreateModal"
  /\ console' = ""
  /\ UNCHANGED <<editingTodo, title, description, known, handlers, handled,
                 fetch, server, client, startup>>

\* openCreateModal: the buttons Add Todo and Create Todo
openCreateModal ==
  /\ Clickable
  /\ editingTodo' = Null
  /\ title' = ""
  /\ description' = ""
  /\ isOpen' = TRUE
  /\ openedBy' = IF ~isOpen /\ editingTodo # Null
                 THEN "openCreateModal after onClose" ELSE "openCreateModal"
  /\ console' = ""
  /\ UNCHANGED <<known, handlers, handled, fetch, server, client, startup>>

\* handleEdit(todo): the button Edit of a rendered todo
handleEdit(todo) ==
  /\ Clickable
  /\ todo \in Rendering
  /\ editingTodo' = <<todo>>
  /\ title' = todo.title
  /\ description' = DescriptionField(todo)
  /\ isOpen' = TRUE
  /\ openedBy' = "handleEdit"
  /\ console' = ""
  /\ UNCHANGED <<known, handlers, handled, fetch, server, client, startup>>

\* onClose of the Dialog (Escape, a click outside): setIsOpen(false)
onClose ==
  /\ ~isError
  /\ isOpen
  /\ isOpen' = FALSE
  /\ console' = ""
  /\ UNCHANGED <<editingTodo, title, description, openedBy, known, handlers,
                 handled, fetch, server, client, startup>>

\* the button Cancel
Cancel ==
  /\ ~isError
  /\ isOpen
  /\ isOpen' = FALSE
  /\ editingTodo' = Null
  /\ title' = ""
  /\ description' = ""
  /\ console' = ""
  /\ UNCHANGED <<openedBy, known, handlers, handled, fetch, server, client,
                 startup>>

\* onChange of the title input
setTitle(v) ==
  /\ ~isError
  /\ isOpen
  /\ title # v
  /\ title' = v
  /\ console' = ""
  /\ UNCHANGED <<isOpen, editingTodo, description, openedBy, known, handlers,
                 handled, fetch, server, client, startup>>

\* onChange of the description textarea
setDescription(v) ==
  /\ ~isError
  /\ isOpen
  /\ description # v
  /\ description' = v
  /\ console' = ""
  /\ UNCHANGED <<isOpen, editingTodo, title, openedBy, known, handlers,
                 handled, fetch, server, client, startup>>

\* handleSubmit up to its await; the title input is required, so the form
\* is not submitted with an empty title
handleSubmit(c) ==
  /\ ~isError
  /\ isOpen
  /\ title # ""
  /\ Awaits(c, IF editingTodo # Null
               THEN [NoHandler EXCEPT
                       !.pc = "sent", !.handler = "handleSubmit",
                       !.method = "PATCH", !.id = editingTodo[1].id,
                       !.body = <<updateTodoBody(SubmitUpdates(title, description))>>,
                       !.todo = editingTodo]
               ELSE [NoHandler EXCEPT
                       !.pc = "sent", !.handler = "handleSubmit",
                       !.method = "POST",
                       !.body = <<createTodoBody(title, description)>>])
  /\ console' = ""
  /\ UNCHANGED <<isOpen, editingTodo, title, description, openedBy, known,
                 fetch, server, client, startup>>

\* handleToggle(todo) up to its await: the checkbox of a rendered todo
handleToggle(c, todo) ==
  /\ Clickable
  /\ todo \in Rendering
  /\ Awaits(c, [NoHandler EXCEPT
                  !.pc = "sent", !.handler = "handleToggle",
                  !.method = "PATCH", !.id = todo.id,
                  !.body = <<updateTodoBody(ToggleUpdates(todo))>>,
                  !.todo = <<todo>>])
  /\ console' = ""
  /\ UNCHANGED <<isOpen, editingTodo, title, description, openedBy, known,
                 fetch, server, client, startup>>

\* handleDelete(id) up to its await, the user having confirmed
handleDelete(c, todo) ==
  /\ Clickable
  /\ todo \in Rendering
  /\ Awaits(c, [NoHandler EXCEPT
                  !.pc = "sent", !.handler = "handleDelete",
                  !.method = "DELETE", !.id = todo.id])
  /\ console' = ""
  /\ UNCHANGED <<isOpen, editingTodo, title, description, openedBy, known,
                 fetch, server, client, startup>>

\* the response to the call of slot c sets out, unless the call has rejected
\* already
Responds(c, ok) ==
  handlers' = IF handlers[c].pc = "awaiting"
              THEN [handlers EXCEPT ![c].pc = IF ok THEN "ok" ELSE "failed"]
              ELSE handlers

\* the request of the call arrives and its route handler runs to its first
\* await on the store, or to its response (401, 400, 404)
Handles(c, session) ==
  /\ handlers[c].pc = "sent"
  /\ LET h == handlers[c]
         r == Begin(h.method, session, h.id)
         Refused == /\ handlers' = [handlers EXCEPT ![c].pc = "failed"]
                    /\ UNCHANGED <<req, clock, uuids>>
         Goes_on(q) == /\ handlers' = [handlers EXCEPT ![c].pc = "awaiting"]
                       /\ req' = [req EXCEPT ![c] = q]
     IN CASE h.method = "POST" ->
               IF POSTCheck(session, h.body[1]) # 0 THEN Refused
               ELSE \E createdAt \in Today :
                      \E updatedAt \in {createdAt, createdAt + 1} :
                        /\ updatedAt <= MaxClock
                        /\ uuids' = uuids + 1
                        /\ clock' = updatedAt
                        /\ Goes_on([r EXCEPT
                                      !.pc = "insert",
                                      !.values = <<InsertValues(h.body[1], session,
                                                     uuids + 1, createdAt, updatedAt)>>])
          [] h.method = "PATCH" ->
               IF session = NoSession THEN Refused
               ELSE /\ Goes_on([r EXCEPT
                                  !.pc = "selected",
                                  !.existing = SelectExisting(todos, h.id, session[1]),
                                  !.patch = <<Destructure(h.body[1])>>])
                    /\ UNCHANGED <<clock, uuids>>
          [] h.method = "DELETE" ->
               IF session = NoSession
                  \/ Len(SelectExisting(todos, h.id, session[1])) = 0
               THEN Refused
               ELSE /\ Goes_on([r EXCEPT !.pc = "delete"])
                    /\ UNCHANGED <<clock, uuids>>
  /\ console' = ""
  /\ UNCHANGED <<form, openedBy, known, handled, fetch, todos, started, res,
                 client, startup>>

\* the route handler goes on after an await: PATCH from the select's result
\* to its update statement, or the pending insert, update or delete
\* statement executes and the handler responds
Proceeds(c) ==
  /\ req[c].pc \in {"selected", "insert", "update", "delete"}
  /\ LET r == req[c]
         Over(ok) == req' = [req EXCEPT ![c] = Idle] /\ Responds(c, ok)
     IN CASE r.pc = "selected" ->
               IF Len(r.existing) = 0
               THEN Over(FALSE) /\ UNCHANGED <<todos, clock>>
               ELSE \E now \in Today :
                      /\ clock' = now
                      /\ req' = [req EXCEPT ![c] =
                                   [r EXCEPT
                                      !.pc = "update",
                                      !.existing = <<>>,
                                      !.values = <<UpdateSet(r.patch[1],
                                                             r.existing[1], now)>>]]
                      /\ UNCHANGED <<todos, handlers>>
          [] r.pc = "insert" ->
               /\ todos' = Insert(todos, r.values[1])
               /\ Over(TRUE)
               /\ UNCHANGED clock
          [] r.pc = "update" ->
               /\ todos' = Update(todos, r.values[1], r.id, r.session[1])
               /\ Over(Len(UpdateReturning(todos, r.values[1], r.id,
                                           r.session[1])) # 0)
               /\ UNCHANGED clock
          [] r.pc = "delete" ->
               /\ todos' = Delete(todos, r.id, r.session[1])
               /\ Over(TRUE)
               /\ UNCHANGED clock
  /\ console' = ""
  /\ UNCHANGED <<form, openedBy, known, handled, fetch, uuids, started, res,
                 client, startup>>

\* the pending statement of the route handler rejects: the catch block
\* answers 500
Throws(c) ==
  /\ req[c].pc \in {"insert", "update", "delete"}
  /\ req' = [req EXCEPT ![c] = Idle]
  /\ Responds(c, FALSE)
  /\ console' = ""
  /\ UNCHANGED <<form, openedBy, known, handled, fetch, todos, clock, uuids,
                 started, res, client, startup>>

\* fetch rejects: the request or the response of the call is lost; what the
\* route handler has begun goes on
Fails(c) ==
  /\ handlers[c].pc \in {"sent", "awaiting", "ok"}
  /\ handlers' = [handlers EXCEPT ![c].pc = "failed"]
  /\ console' = ""
  /\ UNCHANGED <<form, openedBy, known, handled, fetch, server, client,
                 startup>>

\* console.error of the catch block of the handler, "" when nothing is logged
\* by the step (console holds what the last step of the component logged)
ConsoleError(h) ==
  IF h.pc # "failed" THEN ""
  ELSE CASE h.handler = "handleSubmit" -> "Error saving todo:"
         [] h.handler = "handleToggle" -> "Error toggling todo:"
         [] h.handler = "handleDelete" -> "Error deleting todo:"

\* as Resumes, for a handleSubmit that resets the form in a finally block
ResumesFinally(c) ==
  /\ handlers[c].pc \in {"ok", "failed"}
  /\ handlers' = [handlers EXCEPT ![c] = NoHandler]
  /\ IF handlers[c].handler = "handleSubmit"
     THEN /\ isOpen' = FALSE
          /\ title' = ""
          /\ description' = ""
          /\ editingTodo' = Null
     ELSE UNCHANGED form
  /\ console' = ConsoleError(handlers[c])
  /\ UNCHANGED <<openedBy, known, handled, fetch, server, client, startup>>

\* the response arrives (res.ok, or not) or fetch has rejected, and the
\* handler goes on after its await: after updateTodo or createTodo has
\* resolved handleSubmit closes the dialog and clears the form; a catch
\* block only logs
Resumes(c) ==
  /\ handlers[c].pc \in {"ok", "failed"}
  /\ handlers' = [handlers EXCEPT ![c] = NoHandler]
  /\ IF handlers[c].handler = "handleSubmit" /\ handlers[c].pc = "ok"
     THEN /\ isOpen' = FALSE
          /\ title' = ""
          /\ description' = ""
          /\ editingTodo' = Null
     ELSE UNCHANGED form
  /\ console' = ConsoleError(handlers[c])
  /\ UNCHANGED <<openedBy, known, handled, fetch, server, client, startup>>

\* the GET of the fetcher is handled: the list sets out; SWR uses the
\* response of the request of the key it started last
Revalidates ==
  /\ \E userTodos \in SelectUserTodos(todos, Me[1]) : listing' = <<userTodos>>
  /\ listing' # listing
  /\ console' = ""
  /\ UNCHANGED <<form, openedBy, known, handlers, handled, isError, server,
                 client, startup>>

\* the fetcher resolves: SWR holds the list and no error, and the component
\* renders the list
FetcherResolves ==
  /\ listing # <<>>
  /\ known' = listing[1]
  /\ isError' = FALSE
  /\ listing' = <<>>
  /\ console' = ""
  /\ UNCHANGED <<form, openedBy, handlers, handled, server, client, startup>>

\* the fetcher rejects (the GET is answered 401 or 500, or is lost): SWR
\* holds the error beside the list it has
FetcherRejects ==
  /\ ~isError \/ listing # <<>>
  /\ isError' = TRUE
  /\ listing' = <<>>
  /\ console' = ""
  /\ UNCHANGED <<form, openedBy, known, handlers, handled, server, client,
                 startup>>

InitTodoList ==
  /\ todos = Insert({}, Row1)
  /\ clock = 1
  /\ uuids = 1
  /\ started = 0
  /\ req = [s \in Slots |-> Idle]
  /\ res = <<>>
  /\ Mounted

NextTodoList ==
  \/ openCreateModal
  \/ \E todo \in Rendering : handleEdit(todo)
  \/ onClose
  \/ Cancel
  \/ \E v \in FormTitles : setTitle(v)
  \/ \E v \in FormDescriptions : setDescription(v)
  \/ \E c \in Calls : handleSubmit(c)
  \/ \E c \in Calls, todo \in Rendering : handleToggle(c, todo)
  \/ \E c \in Calls, todo \in Rendering : handleDelete(c, todo)
  \/ \E c \in Calls, session \in {Me, NoSession} : Handles(c, session)
  \/ \E c \in Calls : Proceeds(c)
  \/ \E c \in Calls : Throws(c)
  \/ \E c \in Calls : Fails(c)
  \/ \E c \in Calls : Resumes(c)
  \/ Revalidates
  \/ FetcherResolves
  \/ FetcherRejects

SpecTodoList == InitTodoList /\ [][NextTodoList]_vars

(***************************************************************************)
(* Vocabulary of the properties.                                           *)
(***************************************************************************)
\* the step just taken returned a response
Responded == res # <<>>

\* the rows of the table with this id
RowsWithId(table, id) == {r \in table : r.id = id}

\* slot s, in flight before the step, returns its response in the step
Finishes(s) == req[s].pc # "idle" /\ req'[s].pc = "idle" /\ res' # <<>>

\* C1: a step changes or removes a row only when it is the update or the
\* delete statement of a request whose session is that of the row's userId
\* (and whose id is the row's): no request touches another user's row.
C1_OwnershipIsolation ==
  [][\A r \in todos :
       r \notin todos' =>
         \E s \in Slots :
           /\ req[s].pc \in {"update", "delete"}
           /\ Finishes(s)
           /\ req[s].session = <<r.userId>>
           /\ req[s].id = r.id]_vars

\* C1 witness: a DELETE aimed at a row of another user has been answered
\* 404 and the row is still in the table
C1_Witness ==
  /\ Responded
  /\ res[1].method = "DELETE"
  /\ res[1].status = 404
  /\ \E r \in todos : r.id = res[1].id /\ <<r.userId>> # res[1].session

\* the request that arrives in the step: as the response echoes it, or as
\* the slot it has taken holds it
Arrival == started' = started + 1

Arrived ==
  IF res' # <<>> THEN res'[1]
  ELSE req'[CHOOSE s \in Slots : req'[s] # req[s]]

\* the table holds a row with the request's id that its session owns
Owns(table, r) == \E x \in table : x.id = r.id /\ <<x.userId>> = r.session

\* the table holds a row with the request's id that another user owns
OthersRow(table, r) == \E x \in table : x.id = r.id /\ <<x.userId>> # r.session

\* C2: the lookup of a PATCH or DELETE whose session owns no row with the
\* request's id has one outcome, whether another user's row has that id or
\* no row has: the DELETE is answered 404 "Todo not found", the PATCH holds an
\* empty existingTodo and is answered the same 404 in its next step, and the
\* table is unchanged; so the response does not tell the two cases apart.
C2_NoExistenceLeak ==
  [][/\ (/\ Arrival
         /\ Arrived.method \in {"PATCH", "DELETE"}
         /\ Arrived.session # NoSession
         /\ ~(res' # <<>> /\ res'[1].logged # "")
         /\ ~Owns(todos, Arrived))
        => /\ todos' = todos
           /\ Arrived.method = "DELETE" => res' = NotFound(Arrived)
           /\ Arrived.method = "PATCH" =>
                res' = <<>> /\ Arrived.pc = "selected" /\ Arrived.existing = <<>>
     /\ \A s \in Slots :
          (req[s].pc = "selected" /\ req[s].existing = <<>> /\ req'[s] # req[s])
            => res' = NotFound(req[s]) /\ todos' = todos]_vars

\* C2 witness: a PATCH for the id of another user's row has been answered 404
C2_Witness ==
  /\ Responded
  /\ res[1].method = "PATCH"
  /\ res[1].status = 404
  /\ OthersRow(todos, res[1])

\* C2 witness of the other case is the same response for an id no row has
C2_WitnessAbsent ==
  /\ Responded
  /\ res[1].method = "PATCH"
  /\ res[1].status = 404
  /\ RowsWithId(todos, res[1].id) = {}

\* C3: a row enters the table only by the insert statement of a POST, with
\* the userId of that POST's session, whatever userId its body carried, and
\* no step changes the userId of a row that stays in the table.
C3_UserIdFromSession ==
  [][\A r \in todos' :
       IF RowsWithId(todos, r.id) = {}
       THEN \E s \in Slots :
              /\ req[s].pc = "insert"
              /\ Finishes(s)
              /\ req[s].method = "POST"
              /\ req[s].session = <<r.userId>>
       ELSE \A o \in RowsWithId(todos, r.id) : o.userId = r.userId]_vars

\* C3 witness: a row that a POST of the run created for its session has
\* been written by a successful PATCH
C3_Witness ==
  /\ Responded
  /\ res[1].method = "PATCH"
  /\ res[1].status = 200
  /\ res[1].id = 3
  /\ \E r \in todos : r.id = 3 /\ <<r.userId>> = res[1].session

\* C4: the array a GET returns holds no row of a user other than the one of
\* its session.
C4_ListOnlyOwn ==
  (Responded /\ res[1].method = "GET" /\ res[1].status = 200)
    => \A i \in DOMAIN res[1].data : <<res[1].data[i].userId>> = res[1].session

\* C4 witness: a GET has returned rows while the table holds a row of
\* another user
C4_Witness ==
  /\ Responded
  /\ res[1].method = "GET"
  /\ res[1].status = 200
  /\ Len(res[1].data) > 0
  /\ \E r \in todos : <<r.userId>> # res[1].session

\* C5: no row of the table has the empty title.
C5_TitleNeverEmpty == \A r \in todos : r.title # ""

\* C6: a POST with a session whose body has no title, or the empty title,
\* is answered 400 "Title is required", and it inserts nothing: the table is
\* unchanged, no insert statement is pending and no id has been generated.
C6_EmptyTitleRejected ==
  [][Arrival =>
       \A s \in Slots, session \in Sessions \ {NoSession},
          body \in {b \in Bodies : b.title \in {Undefined, Prop(Val(""))}} :
         POST(s, session, body) =>
           /\ res' = ErrorResponse(Begin("POST", session, 0), 400,
                                   "Title is required")
           /\ todos' = todos
           /\ req' = req
           /\ uuids' = uuids]_vars

\* C6 witness: a POST has been answered 400
C6_Witness ==
  /\ Responded
  /\ res[1].method = "POST"
  /\ res[1].status = 400
  /\ res[1].session # NoSession

\* C7: a request for which getSession resolves to no session is answered
\* 401 "Unauthorized" in the step it arrives in, whatever its method, body
\* and id, and leaves the table unchanged; no handler goes on without a
\* session.
C7_Unauthorized ==
  [][/\ (/\ res' # <<>>
         /\ res'[1].session = NoSession
         /\ res'[1].logged # "getSession")
        => res' = Unauthorized(res'[1]) /\ todos' = todos /\ Arrival
     /\ \A s \in Slots : req'[s].pc # "idle" => req'[s].session # NoSession]_vars

\* C7 witness: a PATCH without a session, for the id of a row of the table,
\* has been answered 401
C7_Witness ==
  /\ Responded
  /\ res[1].method = "PATCH"
  /\ res[1].session = NoSession
  /\ res[1].status = 401
  /\ RowsWithId(todos, res[1].id) # {}

\* C8: the update statement of a PATCH that is answered 200 leaves the row
\* with, for each of title, description and completed, the value of the patch
\* when the patch has the field, and the value the row had before the
\* statement when it has not.
C8_PartialUpdate ==
  [][\A s \in Slots :
       (req[s].pc = "update" /\ Finishes(s) /\ res'[1].status = 200) =>
         \A o \in RowsWithId(todos, req[s].id) :
           \A n \in RowsWithId(todos', req[s].id) :
             LET patch == req[s].patch[1] IN
             /\ n.title = IF patch.title = Undefined
                          THEN o.title ELSE patch.title[1][1]
             /\ n.description = IF patch.description = Undefined
                                THEN o.description ELSE patch.description[1]
             /\ n.completed = IF patch.completed = Undefined
                              THEN o.completed ELSE patch.completed[1][1]]_vars

\* C9: the insert statement of a POST that is answered 201 adds exactly one
\* row to the table, the row of the response, whose id no row had, with the
\* userId of the session, completed = false and createdAt = updatedAt.
C9_Create ==
  [][\A s \in Slots :
       (req[s].pc = "insert" /\ Finishes(s) /\ res'[1].status = 201) =>
         LET row == res'[1].data[1] IN
         /\ Len(res'[1].data) = 1
         /\ RowsWithId(todos, row.id) = {}
         /\ todos' = todos \cup {row}
         /\ <<row.userId>> = req[s].session
         /\ row.completed = FALSE
         /\ row.createdAt = row.updatedAt]_vars

\* C10: the array a GET returns holds every row of the table with the userId
\* of its session, each once, in ascending createdAt. (The GET is one step
\* that leaves the table unchanged, so todos is the table it has read.)
C10_ListAllSorted ==
  (Responded /\ res[1].method = "GET" /\ res[1].status = 200) =>
    LET data == res[1].data IN
    /\ {data[i] : i \in DOMAIN data} = {r \in todos : <<r.userId>> = res[1].session}
    /\ Len(data) = Cardinality({r \in todos : <<r.userId>> = res[1].session})
    /\ \A i, j \in DOMAIN data : i < j => data[i].createdAt <= data[j].createdAt

\* C10 witness: a GET has returned two rows created at different times
C10_Witness ==
  /\ Responded
  /\ res[1].method = "GET"
  /\ res[1].status = 200
  /\ Len(res[1].data) = 2
  /\ res[1].data[1].createdAt < res[1].data[2].createdAt

\* the step just taken answered a DELETE of id with 200
Deleted(id) ==
  /\ Responded
  /\ res[1].method = "DELETE"
  /\ res[1].status = 200
  /\ res[1].id = id

\* no request is in flight
Quiet == \A s \in Slots : req[s].pc = "idle"

\* what a response says of a deleted id: a GET omits it, and a PATCH or a
\* DELETE of it that has a session and whose statements do not fail is
\* answered 404 "Todo not found"
Gone(id) ==
  /\ RowsWithId(todos, id) = {}
  /\ (Responded /\ res[1].method = "GET" /\ res[1].status = 200)
       => \A i \in DOMAIN res[1].data : res[1].data[i].id # id
  /\ (/\ Responded
      /\ res[1].method \in {"PATCH", "DELETE"}
      /\ res[1].id = id
      /\ res[1].session # NoSession
      /\ res[1].logged = "")
       => res = NotFound(res[1])

\* C11: once a DELETE of an id has been answered 200, no row has that id in
\* any later state, and every request that arrives after that answer finds
\* it gone: a GET omits it, and a PATCH or a second DELETE of the id is
\* answered 404, not 200. (Requests in flight at the time of the answer are
\* the matter of the concurrency claims; here none is.)
C11_HardDelete ==
  \A id \in Ids :
    /\ [](Deleted(id) => [](RowsWithId(todos, id) = {}))
    /\ \A n \in 0..MaxRequests :
         []((Deleted(id) /\ Quiet /\ started = n) => [](started > n => Gone(id)))

\* C11 witness: a second DELETE by u1 of the id of Row1, which a DELETE has
\* removed, has been answered 404
C11_Witness ==
  /\ Responded
  /\ res[1].method = "DELETE"
  /\ res[1].status = 404
  /\ res[1].id = 1
  /\ res[1].session = <<"u1">>
  /\ uuids >= 1
  /\ RowsWithId(todos, 1) = {}

\* the POST of c has just returned
CreatedFirst(c) ==
  /\ res = CreatedResponse(c)
  /\ todos = Insert(c.table, c.row)

\* the update statement of a PATCH {completed: true} of c's row by c's
\* session, the first request after the POST, is pending
UpdatesCompleted(c) ==
  /\ started = 1
  /\ \E s \in Slots :
       /\ req[s].pc = "update"
       /\ req[s].session = c.session
       /\ req[s].id = c.row.id
       /\ req[s].patch = <<[title |-> Undefined, description |-> Undefined,
                            completed |-> Prop(Val(TRUE))]>>

\* that PATCH has been answered 200
UpdatedCompleted(c) ==
  /\ started = 1
  /\ Responded
  /\ res[1].method = "PATCH"
  /\ res[1].status = 200

\* a GET of c's session, the next request, has been answered 200
Listed(c) ==
  /\ started = 2
  /\ Responded
  /\ res[1].method = "GET"
  /\ res[1].status = 200
  /\ res[1].session = c.session

\* C12: when a session without rows has a POST answered 201, then a PATCH
\* {completed: true} of the created id answered 200, then a GET answered 200,
\* the GET returns exactly one row, with completed = true and with the title
\* and the createdAt of the row the POST returned.
C12_RoundTrip ==
  \A c \in Created :
    CreatedFirst(c) =>
      [](UpdatesCompleted(c) =>
           [](UpdatedCompleted(c) =>
                [](Listed(c) =>
                     /\ Len(res[1].data) = 1
                     /\ res[1].data[1].id = c.row.id
                     /\ res[1].data[1].completed = TRUE
                     /\ res[1].data[1].title = c.row.title
                     /\ res[1].data[1].createdAt = c.row.createdAt)))

\* C12 witness: the GET that ends the round trip has returned one completed
\* row, the table holding also a row of the other user
C12_Witness ==
  /\ started = 2
  /\ Responded
  /\ res[1].method = "GET"
  /\ res[1].status = 200
  /\ Len(res[1].data) = 1
  /\ res[1].data[1].completed = TRUE
  /\ res[1].data[1].updatedAt > res[1].data[1].createdAt
  /\ Cardinality(todos) = 2

\* C13: every row of the table has updatedAt >= createdAt.
C13_UpdatedNotBeforeCreated == \A r \in todos : r.updatedAt >= r.createdAt

\* C13 witness: a POST for which the clock advanced between its two reads
\* has been answered 201, and its row is in the table
C13_Witness ==
  /\ Responded
  /\ res[1].method = "POST"
  /\ res[1].status = 201
  /\ res[1].data[1] \in todos
  /\ res[1].data[1].updatedAt > res[1].data[1].createdAt

\* C14: the row a PATCH answered 200 returns has the updatedAt that the
\* handler read from the clock for this update, and that updatedAt is
\* strictly greater than the row's createdAt.
C14_UpdateRefreshes ==
  [][\A s \in Slots :
       (req[s].pc = "update" /\ Finishes(s) /\ res'[1].status = 200) =>
         /\ res'[1].data[1].updatedAt = req[s].values[1].updatedAt
         /\ res'[1].data[1] \in todos'
         /\ res'[1].data[1].updatedAt > res'[1].data[1].createdAt]_vars

\* C15: a step that returns an error response (400, 401, 404 or 500) leaves
\* the table unchanged, and a step that changes the table returns 200 or
\* 201. As the write statement of a handler is its last one, executing in the
\* step that returns, a request that ends in an error has changed nothing.
C15_ErrorsChangeNothing ==
  [][/\ (res' # <<>> /\ res'[1].status \in {400, 401, 404, 500}) => todos' = todos
     /\ todos' # todos => (res' # <<>> /\ res'[1].status \in {200, 201})]_vars

\* C15 witness: the insert statement of a POST has failed and the POST has
\* been answered 500
C15_Witness ==
  /\ Responded
  /\ res[1].method = "POST"
  /\ res[1].status = 500
  /\ res[1].logged = "db"

\* the row that the PATCH of slot s has to write
Target(s) == {r \in todos : WhereIdAndUser(r, req[s].id, req[s].session[1])}

\* C16: between the select of a PATCH and its update statement no write to
\* the row takes effect: while the handler holds existingTodo[0] that row is
\* in the table, and while its update statement is pending the row is in the
\* table and holds, for each field the patch omits, the value the statement
\* is about to write.
C16_AtomicReadModifyWrite ==
  \A s \in Slots :
    /\ (req[s].pc = "selected" /\ req[s].existing # <<>>)
         => req[s].existing[1] \in todos
    /\ req[s].pc = "update" =>
         /\ Target(s) # {}
         /\ \A r \in Target(s) :
              LET patch == req[s].patch[1]
                  set == req[s].values[1] IN
              /\ Nullish(patch.title) => set.title = r.title
              /\ patch.description = Undefined => set.description = r.description
              /\ Nullish(patch.completed) => set.completed = r.completed

\* C17: the update statement of a PATCH whose row is in the table, when it
\* does not fail, is answered 200 and leaves in the table, in place of the
\* row, the row of its own set, which is the row it returns: whatever an
\* update that executed before it has written to the four fields is
\* overwritten, and nothing is merged or rejected.
C17_LastWriteWins ==
  [][\A s \in Slots :
       (/\ req[s].pc = "update"
        /\ Finishes(s)
        /\ res'[1].logged # "db"
        /\ Target(s) # {}) =>
         /\ res'[1].status = 200
         /\ \A r \in Target(s) :
              /\ res'[1].data = <<SetRow(r, req[s].values[1])>>
              /\ todos' = (todos \ {r}) \cup {res'[1].data[1]}]_vars

\* C17 witness: a PATCH has been answered 200 while the update statement of
\* another PATCH of the same row by the same session, computed from an older
\* read of the clock, is still pending
C17_Witness ==
  /\ Responded
  /\ res[1].method = "PATCH"
  /\ res[1].status = 200
  /\ \E s \in Slots :
       /\ req[s].pc = "update"
       /\ req[s].id = res[1].id
       /\ req[s].session = res[1].session
       /\ req[s].values[1].updatedAt < res[1].data[1].updatedAt

\* C18: a PATCH that has passed its session check, when no statement fails,
\* is answered 404, or 200 with the row as the table holds it after the
\* update.
C18_PatchOutcomes ==
  [][\A s \in Slots :
       (/\ req[s].method = "PATCH"
        /\ Finishes(s)
        /\ res'[1].logged # "db") =>
         \/ res' = NotFound(req[s])
         \/ /\ res'[1].status = 200
            /\ Len(res'[1].data) = 1
            /\ res'[1].data[1] \in todos']_vars

\* the response of a request is that of a catch block
Failed500(response) ==
  /\ response.status = 500
  /\ response.error = CatchError(response.method)
  /\ response.message = ""
  /\ response.data = <<>>

\* C19: every request gets exactly one response and no exception escapes:
\* a request in flight is eventually answered, a request leaves its handler
\* only with a response returned in that step, a request that arrives is
\* answered at once or is in flight, and a step returns the response of one
\* request; the response after a thrown exception (of getSession, of
\* request.json(), of a statement) is 500 with the handler's generic error,
\* and the request is over with it: nothing is retried.
C19_FailuresAre500 ==
  /\ [](Responded /\ res[1].logged # "" => Failed500(res[1]))
  /\ [][/\ \A s \in Slots :
             (req[s].pc # "idle" /\ req'[s].pc = "idle") =>
               /\ res' # <<>>
               /\ res'[1].method = req[s].method
               /\ res'[1].session = req[s].session
               /\ res'[1].id = req[s].id
               /\ \A t \in Slots \ {s} : req'[t] = req[t]
        /\ Arrival =>
             \/ res' # <<>> /\ req' = req
             \/ /\ res' = <<>>
                /\ \E s \in Slots :
                     /\ req[s].pc = "idle"
                     /\ req'[s].pc # "idle"
                     /\ \A t \in Slots \ {s} : req'[t] = req[t]
        /\ (res' # <<>> /\ res'[1].logged # "") =>
             /\ todos' = todos
             /\ \A s \in Slots : req'[s] # req[s] => req'[s] = Idle]_vars
  /\ \A s \in Slots : req[s].pc # "idle" ~> req[s].pc = "idle"

\* C19 witness: getSession has thrown and the request has been answered 500
C19_Witness ==
  /\ Responded
  /\ res[1].logged = "getSession"
  /\ Failed500(res[1])

\* C20: a call of createTodo, updateTodo or deleteTodo whose fetch has
\* resolved with res.ok has called mutate('/api/todos') when it settles (in
\* that step, or, for deleteTodo, when its response arrived), so that a
\* revalidation of the key is under way; and the cache then comes to hold
\* the list of a revision at least that of the server at that time.
C20_MutationsRevalidate ==
  /\ [][\A c \in Calls :
          (calls[c].pc = "json" /\ calls'[c].pc = "idle")
            => (calls[c].mutated \/ fetching'.pc = "sent")]_vars
  /\ \A v \in 0..MaxCalls :
       (revision = v /\ \E c \in Calls : calls[c].pc = "json")
         ~> (cache.data >= v)

\* the configuration has a provider of this name, with these credentials
HasProvider(a, name, id, secret) ==
  \E p \in a.socialProviders :
    p.name = name /\ p.clientId = id /\ p.clientSecret = secret

\* the configuration has no provider of this name
LacksProvider(a, name) == \A p \in a.socialProviders : p.name # name

\* both variables are set in the environment to non-empty strings
BothSet(e, id, secret) ==
  /\ e[id] \notin {Undefined, Val("")}
  /\ e[secret] \notin {Undefined, Val("")}

\* C24: the configuration is built once, from the environment as it is then:
\* it has the google provider (with the two google credentials) exactly when
\* GOOGLE_CLIENT_ID and GOOGLE_CLIENT_SECRET are both set and non-empty, the
\* github provider exactly when the two github variables are, each whatever
\* the other, and emailAndPassword enabled always; once built it does not
\* change, whatever becomes of the environment.
C24_OAuthProviders ==
  [][/\ auth # <<>> => auth' = auth
     /\ (auth = <<>> /\ auth' # <<>>) =>
          LET a == auth'[1] IN
          /\ a.emailAndPassword.enabled = TRUE
          /\ IF BothSet(env, "GOOGLE_CLIENT_ID", "GOOGLE_CLIENT_SECRET")
             THEN HasProvider(a, "google", env["GOOGLE_CLIENT_ID"][1],
                              env["GOOGLE_CLIENT_SECRET"][1])
             ELSE LacksProvider(a, "google")
          /\ IF BothSet(env, "GITHUB_CLIENT_ID", "GITHUB_CLIENT_SECRET")
             THEN HasProvider(a, "github", env["GITHUB_CLIENT_ID"][1],
                              env["GITHUB_CLIENT_SECRET"][1])
             ELSE LacksProvider(a, "github")
          /\ Cardinality(a.socialProviders) <= 2]_vars

\* C24 witness: the configuration has been built with github and without
\* google, from an environment with GOOGLE_CLIENT_ID set and
\* GOOGLE_CLIENT_SECRET empty
C24_Witness ==
  /\ auth # <<>>
  /\ env["GOOGLE_CLIENT_ID"] = Val("GOOGLE_CLIENT_ID")
  /\ env["GOOGLE_CLIENT_SECRET"] = Val("")
  /\ LacksProvider(auth[1], "google")
  /\ \E p \in auth[1].socialProviders : p.name = "github"

\* C21: when the call that handleSubmit awaits has failed, the handler
\* leaves isOpen, editingTodo, title and description as they are; the
\* handler closes the dialog and clears the form only when the call has
\* resolved, and then it does.
C21_FormKeptOnFailure ==
  [][\A c \in Calls :
       (handlers[c].pc \in {"ok", "failed"} /\ handlers'[c].pc = "idle"
        /\ handlers[c].handler = "handleSubmit") =>
         IF handlers[c].pc = "failed"
         THEN form' = form
         ELSE form' = <<FALSE, Null, "", "">>]_vars

\* C21 witness: the call of a submitted edit has failed and its handler has
\* logged the error, with the dialog still open on the todo and the title
\* that was typed
C21_Witness ==
  /\ console = "Error saving todo:"
  /\ isOpen
  /\ editingTodo # Null
  /\ title = "b"
  /\ todos = Insert({}, Row1)

\* the route handler has just answered the awaited call of handler h with
\* res.ok
Answered(c, h) ==
  /\ handlers[c].pc = "awaiting"
  /\ handlers[c].handler = h
  /\ handlers'[c].pc = "ok"

\* C23: the PATCH request of handleToggle carries completed, the negation of
\* the completed of the todo as the component rendered it, and neither title
\* nor description; when it is answered with success the stored task has
\* that completed, whatever its completed was in the store.
C23_ToggleFromCache ==
  [][\A c \in Calls :
       Answered(c, "handleToggle") =>
         LET h == handlers[c]
             cached == h.todo[1]
         IN /\ h.method = "PATCH"
            /\ h.id = cached.id
            /\ h.body[1].completed = Prop(Val(~cached.completed))
            /\ h.body[1].title = Undefined
            /\ h.body[1].description = Undefined
            /\ RowsWithId(todos', h.id) # {}
            /\ \A new \in RowsWithId(todos', h.id) :
                 new.completed = ~cached.completed]_vars

\* C23 witness: two toggles of the same rendered todo, not completed when it
\* was rendered, have both succeeded: the second found the task completed
\* in the store and left it completed
C23_Witness ==
  /\ \A c \in Calls :
       /\ handlers[c].pc = "ok"
       /\ handlers[c].handler = "handleToggle"
       /\ handlers[c].todo = <<Row1>>
  /\ \A row \in RowsWithId(todos, Row1.id) : row.completed
  /\ RowsWithId(todos, Row1.id) # {}

\* the dialog was last opened through openCreateModal
OpenedToCreate == openedBy \in {"openCreateModal", "openCreateModal after onClose"}

\* handleSubmit starts the call of slot c in the step
Submits(c) ==
  /\ handlers[c].pc = "idle"
  /\ handlers'[c].pc = "sent"
  /\ handlers'[c].handler = "handleSubmit"

\* C27: handleSubmit sends a PATCH for editingTodo.id with the title and the
\* description of the form and without completed when the dialog was last
\* opened through handleEdit, and a POST with the title and the description
\* of the form otherwise; a step that opens the dialog through
\* openCreateModal leaves editingTodo null and title and description empty,
\* also when an Edit dialog was dismissed by onClose before, and editingTodo
\* stays null as long as that dialog is open.
C27_SubmitFollowsDialog ==
  [][/\ \A c \in Calls :
          Submits(c) =>
            LET h == handlers'[c]
            IN IF openedBy = "handleEdit"
               THEN /\ editingTodo # Null
                    /\ h.method = "PATCH"
                    /\ h.id = editingTodo[1].id
                    /\ h.body[1].title = Prop(Val(title))
                    /\ h.body[1].description = Prop(Val(description))
                    /\ h.body[1].completed = Undefined
               ELSE /\ OpenedToCreate
                    /\ h.method = "POST"
                    /\ h.body[1].title = Prop(Val(title))
                    /\ h.body[1].description = Prop(Val(description))
     /\ (isOpen' /\ OpenedToCreate' /\ (~isOpen \/ openedBy' # openedBy)) =>
          (editingTodo' = Null /\ title' = "" /\ description' = "")
     /\ (isOpen' /\ OpenedToCreate') => editingTodo' = Null]_vars

\* C27 witness: an Edit dialog was dismissed by onClose, the dialog was then
\* opened through openCreateModal, and the form submitted from it has sent a
\* POST
C27_Witness ==
  /\ isOpen
  /\ openedBy = "openCreateModal after onClose"
  /\ editingTodo = Null
  /\ handled = 1
  /\ \E c \in Calls :
       /\ handlers[c].pc = "sent"
       /\ handlers[c].handler = "handleSubmit"
       /\ handlers[c].method = "POST"
       /\ handlers[c].body[1].title = Prop(Val(title))

\* C28: when the PATCH of a handleSubmit whose description field is still
\* what handleEdit put into it is answered with success, the stored
\* description of the task is what it was before (null stays null).
C28_UntouchedDescriptionKept ==
  [][\A c \in Calls :
       (/\ Answered(c, "handleSubmit")
        /\ handlers[c].method = "PATCH"
        /\ handlers[c].body[1].description =
             Prop(Val(DescriptionField(handlers[c].todo[1])))) =>
         \A new \in RowsWithId(todos', handlers[c].id) :
           \E old \in RowsWithId(todos, handlers[c].id) :
             new.description = old.description]_vars

\* the pending statement of slot s executes in the step and its handler
\* answers 200
Succeeds(s, statement) ==
  /\ req[s].pc = statement
  /\ Finishes(s)
  /\ res'[1].status = 200

\* C22: an update statement answered 200 leaves every row but the one with
\* the request's id as it is and keeps the id, userId and createdAt of that
\* one; a delete statement answered 200 removes exactly one row, the one with
\* the request's id that the session owns, and no other; a GET leaves the
\* table as it is.
C22_MutationFrames ==
  [][/\ \A s \in Slots :
          /\ Succeeds(s, "update") =>
               /\ Cardinality(Target(s)) = 1
               /\ \E old \in Target(s), new \in todos' :
                    /\ todos' \ {new} = todos \ {old}
                    /\ new.id = old.id
                    /\ new.userId = old.userId
                    /\ new.createdAt = old.createdAt
          /\ Succeeds(s, "delete") =>
               /\ Cardinality(Target(s)) = 1
               /\ todos' = todos \ Target(s)
               /\ \A r \in Target(s) : r.id = req[s].id
     /\ (Arrival /\ Arrived.method = "GET") => todos' = todos]_vars

\* C25: a delete statement that is answered 200 has removed the row: of the
\* DELETE requests for one task at most one is answered 200.
C25_OneDeleteSucceeds ==
  [][\A s \in Slots : Succeeds(s, "delete") => Target(s) # {}]_vars

\* C26: an update statement answered 200 writes an updatedAt that is not
\* before the one the row holds.
C26_UpdatedAtMonotonic ==
  [][\A s \in Slots :
       Succeeds(s, "update") =>
         \A old \in Target(s) : req[s].values[1].updatedAt >= old.updatedAt]_vars

\* C29: a POST or PATCH with a session whose body cannot be read as an
\* object (request.json() rejects, or the body is null and its destructuring
\* throws) is answered 500 with the message of the handler's catch block and
\* not 400, in the step it arrives: the table is as before and no statement
\* of the request is pending.
C29_UnreadableBody ==
  [][(Arrival /\ res' # <<>> /\ res'[1].logged = "json") =>
       /\ res'[1].method \in {"POST", "PATCH"}
       /\ res'[1].session # NoSession
       /\ Failed500(res'[1])
       /\ res'[1].status # 400
       /\ todos' = todos
       /\ req' = req]_vars

\* C29 witness: the first request, a PATCH of u1 for its own row with a body
\* that cannot be read, has been answered 500 and the row is as it was
C29_Witness ==
  /\ started = 1
  /\ Responded
  /\ res[1].method = "PATCH"
  /\ res[1].logged = "json"
  /\ res[1].status = 500
  /\ res[1].session = <<"u1">>
  /\ res[1].id = 1
  /\ Row1 \in todos
  /\ Quiet

====
